---- MODULE Spec2Model ----
(***************************************************************************)
(* Tool-window usage analysis: reconstruction of usage episodes from       *)
(* opened/closed events (reconstruct_episodes.py), selection and trimming  *)
(* of episodes and the main pipeline (main.py), the statistics bundle      *)
(* (stat_analysis.py) and its reporting (io_driver.py).                    *)
(*                                                                         *)
(* Optional values (Python None, pandas NaN) are sequences of length at    *)
(* most one: None is << >> and a present value v is <<v>>.                 *)
(***************************************************************************)
EXTENDS Integers, Sequences, FiniteSets, TLC

VARIABLES
    pc,               \* position in the program
    args,             \* parsed command line: mode, trim, plots
    dataset_df,       \* the input table, in CSV row order
    sorted_df,        \* reconstruct_all_episodes: dataset_df after sort_values/reset_index
    groups_left,      \* reconstruct_all_episodes: user_ids the groupby loop has still to visit
    user_id,          \* reconstruct_user_episodes: its user_id argument
    user_events,      \* reconstruct_user_episodes: its user_events argument
    i,                \* reconstruct_user_episodes: position of iterrows() (1-based)
    last_open_event,  \* reconstruct_user_episodes: the pending open
    episodes,         \* reconstruct_user_episodes: the episodes list
    slots,            \* history: for each entry of episodes, the rows passed to append_episode
    all_episodes,     \* reconstruct_all_episodes: the all_episodes list
    episodes_df,      \* main: the table read_and_reconstruct_episodes returned
    selected_df,      \* main: result of select_mode
    selected_trimmed_df, \* main: result of apply_trim
    out_dir,          \* TRUE once create_out_dir has made the directory
    files,            \* the files written below out_dir
    results,          \* the result bundle of all_stat_analysis (None until returned)
    lib,              \* how the installed numpy and scipy treat an empty or degenerate sample
    entry,            \* the function the run entered: main, or select_mode called directly
    workers,          \* reconstruct_user_episodes run once per user on workers: the
                      \* frame of each call and the list their results are merged into
    error             \* the exception that ended the run (None while running)

vars == <<pc, args, dataset_df, sorted_df, groups_left, user_id, user_events, i,
          last_open_event, episodes, slots, all_episodes, episodes_df, selected_df,
          selected_trimmed_df, out_dir, files, results, lib, entry, workers, error>>

-----------------------------------------------------------------------------
(* Bounds of the model *)

MaxEvents == 3
MaxTs == 1
MaxMainEvents == 4

Users == {1, 2}
OpenTypes == {"auto", "manual"}
Timestamps == 0..MaxTs

-----------------------------------------------------------------------------
(* Optional values *)

None == << >>
Some(v) == <<v>>
IsNone(x) == x = << >>
NotNone(x) == x # << >>
Val(x) == x[1]

\* The outcome of a call: the value returned, or the exception raised and the
\* function that raised it.
Return(v) == [raised |-> None, value |-> v]
Raise(type, at) == [raised |-> Some([type |-> type, at |-> at]), value |-> << >>]

-----------------------------------------------------------------------------
(* reconstruct_episodes.py *)

REGULAR == "regular"
DOUBLE_OPEN == "double_open"
ORPHAN_OPEN == "orphan_open"
ORPHAN_CLOSE == "orphan_close"
EpisodeType == {REGULAR, DOUBLE_OPEN, ORPHAN_OPEN, ORPHAN_CLOSE}

\* The rows of the input table: open_type is present on opened events only.
RowData ==
    [user_id : Users, timestamp : Timestamps, event : {"opened"}, open_type : OpenTypes]
    \cup [user_id : Users, timestamp : Timestamps, event : {"closed"}, open_type : {"nan"}]

RECURSIVE SeqsUpTo(_, _)
SeqsUpTo(S, n) ==
    IF n = 0 THEN {<< >>}
    ELSE LET shorter == SeqsUpTo(S, n - 1)
         IN  shorter \cup {Append(s, x) : s \in {t \in shorter : Len(t) = n - 1}, x \in S}

Datasets == SeqsUpTo(RowData, MaxEvents)

\* The dict append_episode appends.
EpisodeDict(uid, open_event, close_event, episode_type) ==
    [user_id         |-> uid,
     open_timestamp  |-> IF NotNone(open_event) THEN Some(Val(open_event).timestamp) ELSE None,
     close_timestamp |-> IF NotNone(close_event) THEN Some(Val(close_event).timestamp) ELSE None,
     open_type       |-> IF NotNone(open_event) THEN Some(Val(open_event).open_type) ELSE None,
     episode_type    |-> episode_type]

\* History of one append_episode call: the index labels of the rows it was given.
SlotOf(open_event, close_event) ==
    [open  |-> IF NotNone(open_event) THEN Some(Val(open_event).index) ELSE None,
     close |-> IF NotNone(close_event) THEN Some(Val(close_event).index) ELSE None]

\* append_episode on the loop state st = [last_open_event, episodes, slots].
append_episode(st, uid, open_event, close_event, episode_type) ==
    [st EXCEPT !.episodes = Append(@, EpisodeDict(uid, open_event, close_event, episode_type)),
               !.slots = Append(@, SlotOf(open_event, close_event))]

\* The state of reconstruct_user_episodes before its loop.
LoopInit == [last_open_event |-> None, episodes |-> << >>, slots |-> << >>]

\* Mutant: an opened row that arrives while an open is pending does not replace it.
OpenedBranch_KeepsFirst(st, uid, row) ==
    IF NotNone(st.last_open_event)
    THEN append_episode(st, uid, st.last_open_event, Some(row), DOUBLE_OPEN)
    ELSE [st EXCEPT !.last_open_event = Some(row)]

\* Mutant: the double_open episode is recorded without its close event.
OpenedBranch_NoCloseRecorded(st, uid, row) ==
    LET emitted == IF NotNone(st.last_open_event)
                   THEN append_episode(st, uid, st.last_open_event, None, DOUBLE_OPEN)
                   ELSE st
    IN  [emitted EXCEPT !.last_open_event = Some(row)]

\* One iteration of the loop of reconstruct_user_episodes for an opened row.
OpenedBranch(st, uid, row) ==
    LET emitted == IF NotNone(st.last_open_event)
                   THEN append_episode(st, uid, st.last_open_event, Some(row), DOUBLE_OPEN)
                   ELSE st
    IN  [emitted EXCEPT !.last_open_event = Some(row)]

\* Mutant: a closed row does not clear the pending open.
ClosedBranch_KeepsPending(st, uid, row) ==
    IF NotNone(st.last_open_event)
    THEN append_episode(st, uid, st.last_open_event, Some(row), REGULAR)
    ELSE append_episode(st, uid, None, Some(row), ORPHAN_CLOSE)

\* Mutant: a closed row that finds no pending open emits nothing.
ClosedBranch_DropsOrphanClose(st, uid, row) ==
    IF NotNone(st.last_open_event)
    THEN [append_episode(st, uid, st.last_open_event, Some(row), REGULAR)
            EXCEPT !.last_open_event = None]
    ELSE st

\* One iteration of the loop of reconstruct_user_episodes for a closed row.
ClosedBranch(st, uid, row) ==
    IF NotNone(st.last_open_event)
    THEN [append_episode(st, uid, st.last_open_event, Some(row), REGULAR)
            EXCEPT !.last_open_event = None]
    ELSE append_episode(st, uid, None, Some(row), ORPHAN_CLOSE)

LoopBody(st, uid, row) ==
    IF row.event = "opened" THEN OpenedBranch(st, uid, row)
    ELSE IF row.event = "closed" THEN ClosedBranch(st, uid, row)
    ELSE st

\* Mutant: an open still pending after the loop is dropped.
AfterLoop_DropsPending(st, uid) == st

\* The code after the loop of reconstruct_user_episodes.
AfterLoop(st, uid) ==
    IF NotNone(st.last_open_event)
    THEN append_episode(st, uid, st.last_open_event, None, ORPHAN_OPEN)
    ELSE st

RECURSIVE RunLoop(_, _, _, _)
RunLoop(st, uid, events, k) ==
    IF k > Len(events) THEN st
    ELSE RunLoop(LoopBody(st, uid, events[k]), uid, events, k + 1)

\* reconstruct_user_episodes as a function of its arguments.
reconstruct_user_episodes(uid, events) ==
    AfterLoop(RunLoop(LoopInit, uid, events, 1), uid).episodes

\* Mutant: the table is sorted by user_id alone.
KeyLE_UserOnly(a, b) == a.user_id <= b.user_id

\* Order of sort_values(["user_id", "timestamp"]).
KeyLE(a, b) ==
    \/ a.user_id < b.user_id
    \/ a.user_id = b.user_id /\ a.timestamp <= b.timestamp

\* Insertion after the last row whose key is not greater: the sort is stable
\* (pandas sorts several columns with a lexsort).
RECURSIVE InsertSorted(_, _)
InsertSorted(s, r) ==
    IF s = << >> THEN <<r>>
    ELSE IF KeyLE(s[1], r) THEN <<s[1]>> \o InsertSorted(Tail(s), r)
    ELSE <<r>> \o s

RECURSIVE sort_values(_)
sort_values(df) ==
    IF df = << >> THEN << >>
    ELSE InsertSorted(sort_values(SubSeq(df, 1, Len(df) - 1)), df[Len(df)])

\* reset_index(drop=True): the index labels become the positions 0..n-1.
reset_index(df) ==
    [k \in 1..Len(df) |->
        [user_id |-> df[k].user_id, timestamp |-> df[k].timestamp,
         event |-> df[k].event, open_type |-> df[k].open_type, index |-> k - 1]]

\* The keys of groupby("user_id"), in the ascending order groupby visits them.
RECURSIVE AscendingSeq(_)
AscendingSeq(S) ==
    IF S = {} THEN << >>
    ELSE LET m == CHOOSE x \in S : \A y \in S : x <= y
         IN  <<m>> \o AscendingSeq(S \ {m})

GroupKeys(df) == AscendingSeq({df[k].user_id : k \in 1..Len(df)})

\* The group of one key: its rows, in the order of the table.
Group(df, uid) == SelectSeq(df, LAMBDA r : r.user_id = uid)

RECURSIVE ExtendGroups(_, _, _)
ExtendGroups(acc, df, keys) ==
    IF keys = << >> THEN acc
    ELSE ExtendGroups(acc \o reconstruct_user_episodes(Head(keys), Group(df, Head(keys))),
                      df, Tail(keys))

\* reconstruct_all_episodes up to the list it hands to pd.DataFrame.
reconstruct_all_episodes(df) ==
    LET sorted == reset_index(sort_values(df))
    IN  ExtendGroups(<< >>, sorted, GroupKeys(sorted))

\* Mutant: the difference is taken the wrong way round.
DurationMs_Swapped(e) ==
    IF NotNone(e.open_timestamp) /\ NotNone(e.close_timestamp)
    THEN Some(Val(e.open_timestamp) - Val(e.close_timestamp))
    ELSE None

\* Elementwise close_timestamp - open_timestamp: NaN where either is missing.
DurationMs(e) ==
    IF NotNone(e.open_timestamp) /\ NotNone(e.close_timestamp)
    THEN Some(Val(e.close_timestamp) - Val(e.open_timestamp))
    ELSE None

\* duration_ms / 1000, kept exact as the fraction num/den.
DurationSec(ms) == IF NotNone(ms) THEN Some([num |-> Val(ms), den |-> 1000]) ELSE None

\* np.log10(duration_sec + 1), kept as the term log10(num/den); NaN for a NaN
\* argument and for a negative one.
DurationLog10Sec(sec) ==
    IF NotNone(sec) /\ Val(sec).num + Val(sec).den > 0
    THEN Some([log10_of |-> [num |-> Val(sec).num + Val(sec).den, den |-> Val(sec).den]])
    ELSE None

AddDurations(e) ==
    [user_id |-> e.user_id, open_timestamp |-> e.open_timestamp,
     close_timestamp |-> e.close_timestamp, open_type |-> e.open_type,
     episode_type |-> e.episode_type,
     duration_ms |-> DurationMs(e),
     duration_sec |-> DurationSec(DurationMs(e)),
     duration_log10_sec |-> DurationLog10Sec(DurationSec(DurationMs(e)))]

\* A column of pd.DataFrame(all_episodes) that holds None in every row has dtype
\* object; one that holds a number in some row has a float dtype, None read as NaN.
AllNone(eps, col) == \A k \in 1..Len(eps) : IsNone(eps[k][col])

\* Lines 100-102 of read_and_reconstruct_episodes on the list of episode dicts:
\* the table with its duration columns, or the exception raised.
\*   - pd.DataFrame([]) has no columns: episodes_df["close_timestamp"] is a KeyError;
\*   - a timestamp column of dtype object makes duration_sec an object column,
\*     on which np.log10 raises a TypeError.
DurationColumns(eps) ==
    IF eps = << >> THEN Raise("KeyError", "read_and_reconstruct_episodes")
    ELSE IF AllNone(eps, "open_timestamp") \/ AllNone(eps, "close_timestamp")
    THEN Raise("TypeError", "read_and_reconstruct_episodes")
    ELSE Return([k \in 1..Len(eps) |-> AddDurations(eps[k])])

\* read_and_reconstruct_episodes as a function of the input table.
read_and_reconstruct_episodes(df) == DurationColumns(reconstruct_all_episodes(df))

-----------------------------------------------------------------------------
(* State shared by the specifications *)

NoArgs == [mode |-> "regular_only", trim |-> "all", plots |-> FALSE]

\* The variables of main.py outside read_and_reconstruct_episodes.
mainVars == <<args, selected_df, selected_trimmed_df, out_dir, files, results, lib, entry>>

\* The variables of reconstruct_user_episodes, those of its calls on workers included.
userVars == <<user_id, user_events, i, last_open_event, episodes, slots, workers>>

LoopState == [last_open_event |-> last_open_event, episodes |-> episodes, slots |-> slots]

NoWorkers == [frames |-> << >>, merged |-> << >>, overlapped |-> FALSE]

ReconInit ==
    /\ workers = NoWorkers
    /\ sorted_df = << >>
    /\ groups_left = << >>
    /\ user_id = None
    /\ user_events = << >>
    /\ i = 1
    /\ last_open_event = None
    /\ episodes = << >>
    /\ slots = << >>
    /\ all_episodes = << >>
    /\ error = None

MainInit ==
    /\ selected_df = << >>
    /\ selected_trimmed_df = << >>
    /\ out_dir = FALSE
    /\ files = {}
    /\ results = None

-----------------------------------------------------------------------------
(* read_and_reconstruct_episodes, one action per step *)

\* reconstruct_all_episodes, lines 80-81.
SortValues ==
    /\ pc = "sort"
    /\ sorted_df' = reset_index(sort_values(dataset_df))
    /\ groups_left' = GroupKeys(sorted_df')
    /\ all_episodes' = << >>
    /\ pc' = "groupby"
    /\ UNCHANGED <<dataset_df, episodes_df, error>>
    /\ UNCHANGED userVars
    /\ UNCHANGED mainVars

\* Mutant: the pending open of the previous user is still set when the next
\* user's loop starts.
GroupNext_KeepsPending ==
    /\ pc = "groupby"
    /\ groups_left # << >>
    /\ user_id' = Some(Head(groups_left))
    /\ user_events' = Group(sorted_df, Head(groups_left))
    /\ groups_left' = Tail(groups_left)
    /\ i' = 1
    /\ last_open_event' = last_open_event
    /\ episodes' = LoopInit.episodes
    /\ slots' = LoopInit.slots
    /\ pc' = "loop"
    /\ UNCHANGED <<dataset_df, sorted_df, all_episodes, episodes_df, error, workers>>
    /\ UNCHANGED mainVars

\* reconstruct_all_episodes, line 82-84: the next group enters
\* reconstruct_user_episodes (lines 48-49).
GroupNext ==
    /\ pc = "groupby"
    /\ groups_left # << >>
    /\ user_id' = Some(Head(groups_left))
    /\ user_events' = Group(sorted_df, Head(groups_left))
    /\ groups_left' = Tail(groups_left)
    /\ i' = 1
    /\ last_open_event' = LoopInit.last_open_event
    /\ episodes' = LoopInit.episodes
    /\ slots' = LoopInit.slots
    /\ pc' = "loop"
    /\ UNCHANGED <<dataset_df, sorted_df, all_episodes, episodes_df, error, workers>>
    /\ UNCHANGED mainVars

\* reconstruct_user_episodes, lines 51-65: one iteration of the loop.
LoopIteration ==
    /\ pc = "loop"
    /\ i <= Len(user_events)
    /\ LET st == LoopBody(LoopState, Val(user_id), user_events[i])
       IN  /\ last_open_event' = st.last_open_event
           /\ episodes' = st.episodes
           /\ slots' = st.slots
    /\ i' = i + 1
    /\ UNCHANGED <<pc, dataset_df, sorted_df, groups_left, user_id, user_events,
                   all_episodes, episodes_df, error, workers>>
    /\ UNCHANGED mainVars

\* reconstruct_user_episodes, lines 67-71, and the extend of line 85.
LoopExit ==
    /\ pc = "loop"
    /\ i > Len(user_events)
    /\ LET st == AfterLoop(LoopState, Val(user_id))
       IN  /\ last_open_event' = st.last_open_event
           /\ episodes' = st.episodes
           /\ slots' = st.slots
           /\ all_episodes' = all_episodes \o st.episodes
    /\ pc' = "groupby"
    /\ UNCHANGED <<dataset_df, sorted_df, groups_left, user_id, user_events, i,
                   episodes_df, error, workers>>
    /\ UNCHANGED mainVars

\* reconstruct_all_episodes, line 86, and read_and_reconstruct_episodes, lines 100-103.
Durations ==
    /\ pc = "groupby"
    /\ groups_left = << >>
    /\ LET r == DurationColumns(all_episodes)
       IN  /\ episodes_df' = r.value
           /\ error' = r.raised
           /\ pc' = IF NotNone(r.raised) THEN "raised" ELSE "returned"
    /\ UNCHANGED <<dataset_df, sorted_df, groups_left, all_episodes>>
    /\ UNCHANGED userVars
    /\ UNCHANGED mainVars

SpecReconInit ==
    /\ pc = "sort"
    /\ dataset_df \in Datasets
    /\ args = NoArgs
    /\ lib = [numpy |-> "raises", scipy |-> "raises"]
    /\ entry = "read_and_reconstruct_episodes"
    /\ episodes_df = << >>
    /\ ReconInit
    /\ MainInit

SpecReconNext ==
    \/ SortValues
    \/ GroupNext
    \/ LoopIteration
    \/ LoopExit
    \/ Durations

\* read_and_reconstruct_episodes on every table of at most MaxEvents rows.
SpecRecon == SpecReconInit /\ [][SpecReconNext]_vars

-----------------------------------------------------------------------------
(* main.py: select_mode and apply_trim *)

Modes == {"regular_only", "include_double_open"}
Trims == {"all", "exclude_top1"}

\* Boolean-mask indexing df[mask] is SelectSeq: the rows that satisfy the mask, in
\* the order of df.

\* Mutant: an unknown mode falls through to the unfiltered table.
select_mode_FallsThrough(df, mode) ==
    IF mode = "regular_only"
    THEN Return(SelectSeq(df, LAMBDA e : e.episode_type = REGULAR))
    ELSE IF mode = "include_double_open"
    THEN Return(SelectSeq(df, LAMBDA e : e.episode_type \in {DOUBLE_OPEN, REGULAR}))
    ELSE Return(df)

\* Mutant: include_double_open keeps every episode that has an open.
select_mode_KeepsOrphanOpen(df, mode) ==
    IF mode = "regular_only"
    THEN Return(SelectSeq(df, LAMBDA e : e.episode_type = REGULAR))
    ELSE IF mode = "include_double_open"
    THEN Return(SelectSeq(df, LAMBDA e : e.episode_type \in {DOUBLE_OPEN, REGULAR, ORPHAN_OPEN}))
    ELSE Raise("ValueError", "select_mode")

select_mode(df, mode) ==
    IF mode = "regular_only"
    THEN Return(SelectSeq(df, LAMBDA e : e.episode_type = REGULAR))
    ELSE IF mode = "include_double_open"
    THEN Return(SelectSeq(df, LAMBDA e : e.episode_type \in {DOUBLE_OPEN, REGULAR}))
    ELSE Raise("ValueError", "select_mode")

\* Fractions num/den with den > 0.
FracLess(a, b) == a.num * b.den < b.num * a.den
FracEq(a, b) == a.num * b.den = b.num * a.den

RECURSIVE InsertAscending(_, _)
InsertAscending(s, x) ==
    IF s = << >> THEN <<x>>
    ELSE IF FracLess(x, s[1]) THEN <<x>> \o s
    ELSE <<s[1]>> \o InsertAscending(Tail(s), x)

RECURSIVE Ascending(_)
Ascending(s) ==
    IF s = << >> THEN << >>
    ELSE InsertAscending(Ascending(Tail(s)), Head(s))

\* df["duration_sec"].dropna(): the values present, in the order of df.
DurationSecDropna(df) ==
    LET present == SelectSeq(df, LAMBDA e : NotNone(e.duration_sec))
    IN  [k \in 1..Len(present) |-> Val(present[k].duration_sec)]

\* np.percentile(a, q) for a non-empty a, q in 0..100, by the default method
\* (linear): with the values ascending, v[0..n-1], the value at the virtual index
\* h = (n-1)*q/100, interpolated between v[floor(h)] and the next value.
\* The values share one denominator; the result is exact.
Percentile(a, q) ==
    LET v   == Ascending(a)
        n   == Len(v)
        h   == (n - 1) * q            \* 100 * virtual index
        lo  == h \div 100
        hi  == IF lo + 1 <= n - 1 THEN lo + 1 ELSE lo
        vlo == v[lo + 1]
        vhi == v[hi + 1]
    IN  [num |-> 100 * vlo.num + (h - 100 * lo) * (vhi.num - vlo.num),
         den |-> 100 * vlo.den]

\* Mutant: the episodes at the threshold are kept as well.
TrimKeeps_Inclusive(e, threshold) ==
    NotNone(e.duration_sec) /\ ~FracLess(threshold, Val(e.duration_sec))

\* df["duration_sec"] < threshold: false where duration_sec is NaN.
TrimKeeps(e, threshold) ==
    NotNone(e.duration_sec) /\ FracLess(Val(e.duration_sec), threshold)

\* apply_trim. np.percentile of an empty array raises an IndexError in numpy from
\* 1.22 on and returns NaN before; every comparison with NaN is false.
apply_trim(df, trim, numpy) ==
    IF trim = "all" THEN Return(df)
    ELSE IF trim = "exclude_top1"
    THEN LET a == DurationSecDropna(df)
         IN  IF a = << >>
             THEN IF numpy = "raises" THEN Raise("IndexError", "apply_trim")
                  ELSE Return(<< >>)
             ELSE Return(SelectSeq(df, LAMBDA e : TrimKeeps(e, Percentile(a, 99))))
    ELSE Raise("ValueError", "apply_trim")

-----------------------------------------------------------------------------
(* stat_analysis.py: which sub-analysis raises, and what the bundle holds.    *)
(* The statistics themselves are library calls; the model keeps their inputs  *)
(* and whether they were computable.                                          *)

\* dropna(subset=["open_type", "duration_sec"]) (user_id is never null).
Qualifying(df) == SelectSeq(df, LAMBDA e : NotNone(e.open_type) /\ NotNone(e.duration_sec))

\* The duration_sec values of one open_type.
GroupDurations(df, type) ==
    DurationSecDropna(SelectSeq(Qualifying(df), LAMBDA e : e.open_type = Some(type)))

GroupTypes(df) == {Val(Qualifying(df)[k].open_type) : k \in 1..Len(Qualifying(df))}

\* stat_summary: per open_type present, the row count n (absent groups are omitted).
stat_summary(df) ==
    Return([t \in GroupTypes(df) |-> [n |-> Len(GroupDurations(df, t))]])

\* inferential_tests. ttest_ind gives NaN for an empty group; mannwhitneyu raises a
\* ValueError for one in the older scipy releases and returns NaN in the newer.
inferential_tests(df, scipy) ==
    IF GroupDurations(df, "auto") = << >> \/ GroupDurations(df, "manual") = << >>
    THEN IF scipy = "raises" THEN Raise("ValueError", "inferential_tests")
         ELSE Return([welch_t_test |-> "nan", mann_whitney |-> "nan"])
    ELSE Return([welch_t_test |-> "computed", mann_whitney |-> "computed"])

\* tail_test. On an empty table np.percentile raises (numpy from 1.22 on) or gives
\* NaN, and then len(tail_users) / len(all_users) divides by zero.
tail_test(df, numpy) ==
    LET a == DurationSecDropna(Qualifying(df))
    IN  IF a = << >>
        THEN IF numpy = "raises" THEN Raise("IndexError", "tail_test")
             ELSE Raise("ZeroDivisionError", "tail_test")
        ELSE LET threshold == Percentile(a, 99)
             IN  Return([threshold_sec |-> threshold,
                         tail_counts |-> Len(SelectSeq(a, LAMBDA d : ~FracLess(d, threshold)))])

\* Twice the median of a non-empty sequence of fractions of one denominator.
TwiceMedian(a) ==
    LET v == Ascending(a)
        n == Len(v)
    IN  IF n % 2 = 1 THEN [num |-> 2 * v[(n + 1) \div 2].num, den |-> v[1].den]
        ELSE [num |-> v[n \div 2].num + v[n \div 2 + 1].num, den |-> v[1].den]

UserGroupDurations(df, uid, type) ==
    GroupDurations(SelectSeq(df, LAMBDA e : e.user_id = uid), type)

\* The index of pivot(...).dropna(): the users with a median for auto and for manual.
PairedUsers(df) ==
    {u \in Users : /\ UserGroupDurations(df, u, "auto") # << >>
                   /\ UserGroupDurations(df, u, "manual") # << >>}

\* A pivot column: the per-user medians (doubled), by ascending user_id.
PivotColumn(df, type) ==
    LET users == AscendingSeq(PairedUsers(df))
    IN  [k \in 1..Len(users) |-> TwiceMedian(UserGroupDurations(df, users[k], type))]

\* wilcoxon_paired_test. pivot has a column per open_type present: pivot["auto"] or
\* pivot["manual"] is a KeyError when the type is absent. stats.wilcoxon on no pairs,
\* or on pairs that are all equal, raises a ValueError in the older scipy releases
\* and returns NaN in the newer.
wilcoxon_paired_test(df, scipy) ==
    IF ~({"auto", "manual"} \subseteq GroupTypes(df))
    THEN Raise("KeyError", "wilcoxon_paired_test")
    ELSE LET pivot_auto   == PivotColumn(df, "auto")
             pivot_manual == PivotColumn(df, "manual")
             degenerate   == \A k \in 1..Len(pivot_auto) : FracEq(pivot_auto[k], pivot_manual[k])
         IN  IF degenerate /\ scipy = "raises"
             THEN Raise("ValueError", "wilcoxon_paired_test")
             ELSE Return([wilcoxon_pair_test |-> IF degenerate THEN "nan" ELSE "computed",
                          n_paired |-> Len(pivot_auto),
                          pivot_auto |-> pivot_auto,
                          pivot_manual |-> pivot_manual])

\* bootstrap_ci: None when either array is empty, else the two intervals.
bootstrap_ci(a, b) ==
    IF Len(a) = 0 \/ Len(b) = 0 THEN None
    ELSE Some([median_ratio_ci |-> "interval", mean_log10_factor_ci |-> "interval"])

\* Mutant: a sub-analysis that raises is skipped and the rest of the bundle returned.
all_stat_analysis_Partial(df, libs) ==
    LET inf == inferential_tests(df, libs.scipy)
    IN  Return([summary |-> stat_summary(df).value,
                inf |-> IF NotNone(inf.raised) THEN [skipped |-> TRUE] ELSE inf.value,
                tail |-> [skipped |-> TRUE], wilcoxon |-> [skipped |-> TRUE],
                bootstrap |-> None])

\* all_stat_analysis: the sub-analyses in order; the first exception leaves the function.
all_stat_analysis(df, libs) ==
    LET summaries == stat_summary(df)
        inf       == inferential_tests(df, libs.scipy)
        tail      == tail_test(df, libs.numpy)
        wilcoxon  == wilcoxon_paired_test(df, libs.scipy)
    IN  IF NotNone(inf.raised) THEN inf
        ELSE IF NotNone(tail.raised) THEN tail
        ELSE IF NotNone(wilcoxon.raised) THEN wilcoxon
        ELSE Return([summary   |-> summaries.value,
                     inf       |-> inf.value,
                     tail      |-> tail.value,
                     wilcoxon  |-> [wilcoxon_pair_test |-> wilcoxon.value.wilcoxon_pair_test,
                                    n_paired |-> wilcoxon.value.n_paired],
                     bootstrap |-> bootstrap_ci(wilcoxon.value.pivot_auto,
                                                wilcoxon.value.pivot_manual)])

-----------------------------------------------------------------------------
(* plotting.py and io_driver.py: the files written, or the exception *)

PlotFiles == {"duration_hist_log10.png", "duration_boxplot_log10.png",
              "boxplot_per_user_median_log10.png", "duration_violin_log10.png"}

\* plot_all: each plot raises a ValueError on a table without a qualifying row; the
\* first one does so before any image is saved.
plot_all(df) ==
    IF Qualifying(df) = << >> THEN Raise("ValueError", "plot_all")
    ELSE Return(PlotFiles)

\* pretty_print: the text is built first; results["bootstrap"]["median_ratio_ci"]
\* (line 74) is a TypeError when results["bootstrap"] is None, and results.txt is
\* written only after the text is complete (line 81).
pretty_print(bundle) ==
    IF IsNone(bundle.bootstrap) THEN Raise("TypeError", "pretty_print")
    ELSE Return({"results.txt"})

\* save_json: None, numbers, tables and everything else are converted (_make_json).
save_json(bundle) == Return({"analysis.json"})

-----------------------------------------------------------------------------
(* main.py: main, one action per statement; select_mode and apply_trim are    *)
(* also entered directly, with any mode and trim.                             *)

\* The input tables of main: at most MaxMainEvents rows, already in user order, the
\* k-th row at the k-th instant of a schedule with gaps of one and two seconds.
MainTimestamp(k) == 1000 * (k + k \div 3)

MainRows(k) ==
    [user_id : Users, timestamp : {MainTimestamp(k)}, event : {"opened"}, open_type : OpenTypes]
    \cup [user_id : Users, timestamp : {MainTimestamp(k)}, event : {"closed"}, open_type : {"nan"}]

RECURSIVE MainSeqs(_)
MainSeqs(n) ==
    IF n = 0 THEN {<< >>}
    ELSE LET shorter == MainSeqs(n - 1)
             longest == {t \in shorter : Len(t) = n - 1}
         IN  shorter \cup
             {Append(c[1], c[2]) :
                 c \in {d \in longest \X MainRows(n) :
                          n = 1 \/ d[1][n - 1].user_id <= d[2].user_id}}

MainDatasets == MainSeqs(MaxMainEvents)

\* The episode tables read_and_reconstruct_episodes returns on these inputs.
Tables ==
    {r.value : r \in {t \in {read_and_reconstruct_episodes(d) : d \in Datasets \cup MainDatasets} :
                        IsNone(t.raised)}}

CommandLines == [mode : Modes \cup {"other"}, trim : Trims \cup {"other"}, plots : BOOLEAN]
Libraries == [numpy : {"raises", "nan"}, scipy : {"raises", "nan"}]

\* main, line 100: parse_cmd_args. argparse exits on a --mode or --trim outside
\* its choices.
ParseArgs ==
    /\ pc = "parse_args"
    /\ IF args.mode \in Modes /\ args.trim \in Trims
       THEN pc' = "reconstruct" /\ error' = error
       ELSE pc' = "aborted" /\ error' = Raise("SystemExit", "parse_cmd_args").raised
    /\ UNCHANGED <<dataset_df, sorted_df, groups_left, all_episodes, episodes_df>>
    /\ UNCHANGED userVars
    /\ UNCHANGED mainVars

\* main, lines 101-102.
ReadAndReconstruct ==
    /\ pc = "reconstruct"
    /\ LET r == read_and_reconstruct_episodes(dataset_df)
       IN  /\ episodes_df' = r.value
           /\ error' = r.raised
           /\ pc' = IF NotNone(r.raised) THEN "aborted" ELSE "select_mode"
    /\ UNCHANGED <<dataset_df, sorted_df, groups_left, all_episodes>>
    /\ UNCHANGED userVars
    /\ UNCHANGED mainVars

\* main, line 103; also select_mode entered directly.
SelectMode ==
    /\ pc = "select_mode"
    /\ LET r == select_mode(episodes_df, args.mode)
       IN  /\ selected_df' = r.value
           /\ error' = r.raised
           /\ pc' = IF NotNone(r.raised) THEN "aborted" ELSE "apply_trim"
    /\ UNCHANGED <<dataset_df, sorted_df, groups_left, all_episodes, episodes_df>>
    /\ UNCHANGED userVars
    /\ UNCHANGED <<args, selected_trimmed_df, out_dir, files, results, lib, entry>>

\* main, line 104; also apply_trim entered directly.
ApplyTrim ==
    /\ pc = "apply_trim"
    /\ LET r == apply_trim(selected_df, args.trim, lib.numpy)
       IN  /\ selected_trimmed_df' = r.value
           /\ error' = r.raised
           /\ pc' = IF NotNone(r.raised) THEN "aborted"
                    ELSE IF entry = "main" THEN "create_out_dir"
                    ELSE "returned"
    /\ UNCHANGED <<dataset_df, sorted_df, groups_left, all_episodes, episodes_df>>
    /\ UNCHANGED userVars
    /\ UNCHANGED <<args, selected_df, out_dir, files, results, lib, entry>>

\* main, line 105: create_out_dir.
CreateOutDir ==
    /\ pc = "create_out_dir"
    /\ out_dir' = TRUE
    /\ pc' = "plots"
    /\ UNCHANGED <<dataset_df, sorted_df, groups_left, all_episodes, episodes_df, error>>
    /\ UNCHANGED userVars
    /\ UNCHANGED <<args, selected_df, selected_trimmed_df, files, results, lib, entry>>

\* main, lines 106-107.
PlotAll ==
    /\ pc = "plots"
    /\ LET r == IF args.plots THEN plot_all(selected_trimmed_df) ELSE Return({})
       IN  /\ files' = IF NotNone(r.raised) THEN files ELSE files \cup r.value
           /\ error' = r.raised
           /\ pc' = IF NotNone(r.raised) THEN "aborted" ELSE "stat_analysis"
    /\ UNCHANGED <<dataset_df, sorted_df, groups_left, all_episodes, episodes_df>>
    /\ UNCHANGED userVars
    /\ UNCHANGED <<args, selected_df, selected_trimmed_df, out_dir, results, lib, entry>>

\* main, line 108.
AllStatAnalysis ==
    /\ pc = "stat_analysis"
    /\ LET r == all_stat_analysis(selected_trimmed_df, lib)
       IN  /\ results' = IF NotNone(r.raised) THEN None ELSE Some(r.value)
           /\ error' = r.raised
           /\ pc' = IF NotNone(r.raised) THEN "aborted" ELSE "pretty_print"
    /\ UNCHANGED <<dataset_df, sorted_df, groups_left, all_episodes, episodes_df>>
    /\ UNCHANGED userVars
    /\ UNCHANGED <<args, selected_df, selected_trimmed_df, out_dir, files, lib, entry>>

\* main, line 109.
PrettyPrint ==
    /\ pc = "pretty_print"
    /\ LET r == pretty_print(Val(results))
       IN  /\ files' = IF NotNone(r.raised) THEN files ELSE files \cup r.value
           /\ error' = r.raised
           /\ pc' = IF NotNone(r.raised) THEN "aborted" ELSE "save_json"
    /\ UNCHANGED <<dataset_df, sorted_df, groups_left, all_episodes, episodes_df>>
    /\ UNCHANGED userVars
    /\ UNCHANGED <<args, selected_df, selected_trimmed_df, out_dir, results, lib, entry>>

\* main, line 110.
SaveJson ==
    /\ pc = "save_json"
    /\ LET r == save_json(Val(results))
       IN  /\ files' = IF NotNone(r.raised) THEN files ELSE files \cup r.value
           /\ error' = r.raised
           /\ pc' = IF NotNone(r.raised) THEN "aborted" ELSE "done"
    /\ UNCHANGED <<dataset_df, sorted_df, groups_left, all_episodes, episodes_df>>
    /\ UNCHANGED userVars
    /\ UNCHANGED <<args, selected_df, selected_trimmed_df, out_dir, results, lib, entry>>

\* main() on a command line and an input table.
MainEntry ==
    /\ entry = "main"
    /\ pc = "parse_args"
    /\ args \in CommandLines
    /\ lib \in Libraries
    /\ dataset_df \in MainDatasets
    /\ episodes_df = << >>
    /\ selected_df = << >>

\* select_mode(df, mode) called on an episode table, and apply_trim on its result.
SelectModeEntry ==
    /\ entry = "select_mode"
    /\ pc = "select_mode"
    /\ args \in [mode : Modes \cup {"other"}, trim : Trims \cup {"other"}, plots : {FALSE}]
    /\ lib \in [numpy : {"raises", "nan"}, scipy : {"raises"}]
    /\ dataset_df = << >>
    /\ episodes_df \in Tables
    /\ selected_df = << >>

\* apply_trim(df, trim) called on an episode table.
ApplyTrimEntry ==
    /\ entry = "apply_trim"
    /\ pc = "apply_trim"
    /\ args \in [mode : {"regular_only"}, trim : Trims \cup {"other"}, plots : {FALSE}]
    /\ lib \in [numpy : {"raises", "nan"}, scipy : {"raises"}]
    /\ dataset_df = << >>
    /\ episodes_df = << >>
    /\ selected_df \in Tables

Init ==
    /\ ReconInit
    /\ selected_trimmed_df = << >>
    /\ out_dir = FALSE
    /\ files = {}
    /\ results = None
    /\ MainEntry \/ SelectModeEntry \/ ApplyTrimEntry

Next ==
    \/ ParseArgs
    \/ ReadAndReconstruct
    \/ SelectMode
    \/ ApplyTrim
    \/ CreateOutDir
    \/ PlotAll
    \/ AllStatAnalysis
    \/ PrettyPrint
    \/ SaveJson

\* main.py: main, and its selectors called on their own.
Spec == Init /\ [][Next]_vars

-----------------------------------------------------------------------------
(* reconstruct_user_episodes called once per user on independent workers *)

\* The frame of a call reconstruct_user_episodes(uid, group): its locals
\* (lines 48-49), the position of its loop and whether it has returned.
NewFrame ==
    [i |-> 1, last_open_event |-> LoopInit.last_open_event,
     episodes |-> LoopInit.episodes, slots |-> LoopInit.slots, at |-> "loop"]

FrameState(f) == [last_open_event |-> f.last_open_event, episodes |-> f.episodes, slots |-> f.slots]

\* Another call is inside its loop, some of its events consumed and some left.
OtherMidLoop(u) ==
    \E v \in DOMAIN workers.frames \ {u} :
        /\ workers.frames[v].at = "loop"
        /\ workers.frames[v].i > 1
        /\ workers.frames[v].i <= Len(Group(sorted_df, v))

\* The sequential run of reconstruct_all_episodes has left its loop (line 86):
\* the same groups are handed to one call each.
WorkersStart ==
    /\ pc = "groupby"
    /\ groups_left = << >>
    /\ workers' = [frames |-> [u \in {sorted_df[k].user_id : k \in 1..Len(sorted_df)} |-> NewFrame],
                   merged |-> << >>, overlapped |-> FALSE]
    /\ pc' = IF sorted_df = << >> THEN "merged" ELSE "workers"
    /\ UNCHANGED <<dataset_df, sorted_df, groups_left, user_id, user_events, i,
                   last_open_event, episodes, slots, all_episodes, episodes_df, error>>
    /\ UNCHANGED mainVars

\* reconstruct_user_episodes, lines 51-65, in the call for user u: one iteration.
WorkerIteration(u) ==
    /\ pc = "workers"
    /\ u \in DOMAIN workers.frames
    /\ LET f == workers.frames[u]
           events == Group(sorted_df, u)
       IN  /\ f.at = "loop"
           /\ f.i <= Len(events)
           /\ LET st == LoopBody(FrameState(f), u, events[f.i])
              IN  workers' =
                    [workers EXCEPT
                        !.frames[u] = [i |-> f.i + 1, last_open_event |-> st.last_open_event,
                                       episodes |-> st.episodes, slots |-> st.slots,
                                       at |-> "loop"],
                        !.overlapped = @ \/ OtherMidLoop(u)]
    /\ UNCHANGED <<pc, dataset_df, sorted_df, groups_left, user_id, user_events, i,
                   last_open_event, episodes, slots, all_episodes, episodes_df, error>>
    /\ UNCHANGED mainVars

\* reconstruct_user_episodes, lines 67-71, in the call for user u.
WorkerReturn(u) ==
    /\ pc = "workers"
    /\ u \in DOMAIN workers.frames
    /\ LET f == workers.frames[u]
       IN  /\ f.at = "loop"
           /\ f.i > Len(Group(sorted_df, u))
           /\ LET st == AfterLoop(FrameState(f), u)
              IN  workers' =
                    [workers EXCEPT
                        !.frames[u] = [i |-> f.i, last_open_event |-> st.last_open_event,
                                       episodes |-> st.episodes, slots |-> st.slots,
                                       at |-> "returned"]]
    /\ UNCHANGED <<pc, dataset_df, sorted_df, groups_left, user_id, user_events, i,
                   last_open_event, episodes, slots, all_episodes, episodes_df, error>>
    /\ UNCHANGED mainVars

\* The extend of line 85 applied to the result of the call for user u, in the
\* order the calls are collected.
WorkerMerge(u) ==
    /\ pc = "workers"
    /\ u \in DOMAIN workers.frames
    /\ workers.frames[u].at = "returned"
    /\ workers' = [workers EXCEPT !.frames[u].at = "merged",
                                  !.merged = @ \o workers.frames[u].episodes]
    /\ pc' = IF \A v \in DOMAIN workers.frames \ {u} : workers.frames[v].at = "merged"
             THEN "merged" ELSE "workers"
    /\ UNCHANGED <<dataset_df, sorted_df, groups_left, user_id, user_events, i,
                   last_open_event, episodes, slots, all_episodes, episodes_df, error>>
    /\ UNCHANGED mainVars

SpecWorkersInit ==
    /\ pc = "sort"
    /\ dataset_df \in MainDatasets
    /\ args = NoArgs
    /\ lib = [numpy |-> "raises", scipy |-> "raises"]
    /\ entry = "reconstruct_all_episodes"
    /\ episodes_df = << >>
    /\ ReconInit
    /\ MainInit

SpecWorkersNext ==
    \/ SortValues
    \/ GroupNext
    \/ LoopIteration
    \/ LoopExit
    \/ WorkersStart
    \/ \E u \in Users : WorkerIteration(u)
    \/ \E u \in Users : WorkerReturn(u)
    \/ \E u \in Users : WorkerMerge(u)

\* reconstruct_all_episodes run sequentially, then its per-user calls run again
\* on independent workers, in every interleaving and every order of collection.
SpecWorkers == SpecWorkersInit /\ [][SpecWorkersNext]_vars

-----------------------------------------------------------------------------
(* Claims about reconstruct_user_episodes, checked under SpecRecon *)

\* reconstruct_user_episodes has just returned the list `episodes` for `user_events`.
UserReturned == pc = "groupby" /\ NotNone(user_id)

\* The open and close slots, over the user's episodes, that hold the row of index idx.
SlotsHolding(idx) ==
    {<<n, "open">> : n \in {m \in 1..Len(slots) : slots[m].open = Some(idx)}}
    \cup {<<n, "close">> : n \in {m \in 1..Len(slots) : slots[m].close = Some(idx)}}

\* The k-th event of the user arrives while an open is pending.
ArrivesPending(k) == k > 1 /\ user_events[k - 1].event = "opened"

EpisodesOfType(t) == {n \in 1..Len(episodes) : episodes[n].episode_type = t}

\* C1 as stated: at most as many episodes as events, and every event of the user
\* occupies exactly one open or close slot over the user's episodes.
C1_Original ==
    UserReturned =>
        /\ Len(episodes) <= Len(user_events)
        /\ \A k \in 1..Len(user_events) :
              Cardinality(SlotsHolding(user_events[k].index)) = 1

\* C1 (amended): at most as many episodes as events; every event occupies at least
\* one slot (none is dropped); an opened event that arrives while an open is pending
\* occupies exactly two, the close slot of the double_open episode it ends and the
\* open slot of the next episode; every other event occupies exactly one.
C1_SlotsPerEvent ==
    UserReturned =>
        /\ Len(episodes) <= Len(user_events)
        /\ Len(slots) = Len(episodes)
        /\ \A k \in 1..Len(user_events) :
              LET held == SlotsHolding(user_events[k].index)
              IN  IF user_events[k].event = "opened" /\ ArrivesPending(k)
                  THEN \E n \in 1..(Len(episodes) - 1) :
                          /\ held = {<<n, "close">>, <<n + 1, "open">>}
                          /\ episodes[n].episode_type = DOUBLE_OPEN
                  ELSE Cardinality(held) = 1

\* A user whose events open, open again and close: the second open sits in two slots.
C1_Witness ==
    /\ UserReturned
    /\ Len(user_events) = 3
    /\ user_events[1].event = "opened"
    /\ user_events[2].event = "opened"
    /\ user_events[3].event = "closed"
    /\ Cardinality(SlotsHolding(user_events[2].index)) = 2
    /\ Cardinality(SlotsHolding(user_events[3].index)) = 1

\* The fold of the specification, written on its own: the pending open and the
\* episodes emitted so far, event by event from the left.
FoldEpisode(uid, open, close, type) ==
    [user_id |-> uid,
     open_timestamp |-> IF open = << >> THEN << >> ELSE <<open[1].timestamp>>,
     close_timestamp |-> IF close = << >> THEN << >> ELSE <<close[1].timestamp>>,
     open_type |-> IF open = << >> THEN << >> ELSE <<open[1].open_type>>,
     episode_type |-> type]

RECURSIVE FoldFrom(_, _, _, _)
FoldFrom(uid, events, pending, out) ==
    IF events = << >> THEN [pending |-> pending, out |-> out]
    ELSE LET ev == Head(events)
         IN  IF ev.event = "opened"
             THEN FoldFrom(uid, Tail(events), <<ev>>,
                           IF pending # << >>
                           THEN Append(out, FoldEpisode(uid, pending, <<ev>>, "double_open"))
                           ELSE out)
             ELSE IF pending # << >>
                  THEN FoldFrom(uid, Tail(events), << >>,
                                Append(out, FoldEpisode(uid, pending, <<ev>>, "regular")))
                  ELSE FoldFrom(uid, Tail(events), << >>,
                                Append(out, FoldEpisode(uid, << >>, <<ev>>, "orphan_close")))

FoldOf(uid, events) == FoldFrom(uid, events, << >>, << >>)

\* What the loop has emitted for the first k events, and what is pending after them.
FoldPrefix(k) == FoldOf(Val(user_id), SubSeq(user_events, 1, k))

\* C2: after every iteration the emitted episodes and the pending open are those of
\* the left-to-right fold with one pending-open slot over the events read so far,
\* in the same order; the episodes returned are the fold's, followed by the
\* orphan_open episode of the open still pending, if any. [open(auto), close] gives exactly one
\* episode, regular, of open_type auto.
C2_LeftFold ==
    /\ pc = "loop" =>
          /\ episodes = FoldPrefix(i - 1).out
          /\ last_open_event = FoldPrefix(i - 1).pending
    /\ UserReturned =>
          LET f == FoldPrefix(Len(user_events))
          IN  /\ episodes =
                    IF f.pending # << >>
                    THEN Append(f.out, FoldEpisode(Val(user_id), f.pending, << >>, "orphan_open"))
                    ELSE f.out
              /\ (Len(user_events) = 2
                  /\ user_events[1].event = "opened" /\ user_events[1].open_type = "auto"
                  /\ user_events[2].event = "closed")
                 => /\ Len(episodes) = 1
                    /\ episodes[1].episode_type = "regular"
                    /\ episodes[1].open_type = <<"auto">>
                    /\ episodes[1].open_timestamp = <<user_events[1].timestamp>>
                    /\ episodes[1].close_timestamp = <<user_events[2].timestamp>>

\* The user's events are [open(auto), close] and one regular episode came back.
C2_Witness ==
    /\ UserReturned
    /\ Len(user_events) = 2
    /\ user_events[1].event = "opened" /\ user_events[1].open_type = "auto"
    /\ user_events[2].event = "closed"
    /\ Len(episodes) = 1
    /\ episodes[1].episode_type = REGULAR

\* The closed events of the user that arrive while no open is pending.
UnmatchedCloses ==
    {k \in 1..Len(user_events) : user_events[k].event = "closed" /\ ~ArrivesPending(k)}

\* C3: an orphan_open episode is emitted exactly when the user's last event is an
\* opened event; it is the user's last episode, so there is at most one, and its
\* close_timestamp is null. Every orphan_close episode has a null open_timestamp and
\* a null open_type, and the orphan_close episodes are, one each, the closed events
\* that arrive while no open is pending.
C3_Orphans ==
    UserReturned =>
        /\ (EpisodesOfType(ORPHAN_OPEN) # {})
              <=> (user_events # << >> /\ user_events[Len(user_events)].event = "opened")
        /\ \A n \in EpisodesOfType(ORPHAN_OPEN) :
              /\ n = Len(episodes)
              /\ IsNone(episodes[n].close_timestamp)
              /\ slots[n].open = Some(user_events[Len(user_events)].index)
        /\ Cardinality(EpisodesOfType(ORPHAN_OPEN)) <= 1
        /\ \A n \in EpisodesOfType(ORPHAN_CLOSE) :
              /\ IsNone(episodes[n].open_timestamp)
              /\ IsNone(episodes[n].open_type)
              /\ IsNone(slots[n].open)
        /\ {slots[n].close : n \in EpisodesOfType(ORPHAN_CLOSE)}
              = {Some(user_events[k].index) : k \in UnmatchedCloses}
        /\ Cardinality(EpisodesOfType(ORPHAN_CLOSE)) = Cardinality(UnmatchedCloses)

\* A user whose events are a close with nothing pending and then an open that is
\* never closed: an orphan_close and a trailing orphan_open.
C3_Witness ==
    /\ UserReturned
    /\ Len(user_events) >= 2
    /\ user_events[1].event = "closed"
    /\ user_events[Len(user_events)].event = "opened"
    /\ EpisodesOfType(ORPHAN_CLOSE) # {}
    /\ EpisodesOfType(ORPHAN_OPEN) = {Len(episodes)}

-----------------------------------------------------------------------------
(* Claims about read_and_reconstruct_episodes, checked under SpecRecon *)

ReconDone == pc \in {"returned", "raised"}

\* No user has two events with the same timestamp.
UniqueTimestamps(df) ==
    \A a, b \in 1..Len(df) :
        (a # b /\ df[a].user_id = df[b].user_id) => df[a].timestamp # df[b].timestamp

Permuted(df, p) == [k \in 1..Len(df) |-> df[p[k]]]

\* C4: when no user has two events with the same timestamp, every permutation of
\* the input rows gives the outcome of the run on the rows as given: the same
\* sequence of episodes, or the same exception.
C4_RowOrderIrrelevant ==
    (ReconDone /\ UniqueTimestamps(dataset_df)) =>
        \A p \in Permutations(1..Len(dataset_df)) :
            read_and_reconstruct_episodes(Permuted(dataset_df, p))
                = [raised |-> error, value |-> episodes_df]

\* A table of three rows given out of (user_id, timestamp) order, no user with a
\* repeated timestamp, reconstructed into a table that holds a regular episode.
C4_Witness ==
    /\ pc = "returned"
    /\ UniqueTimestamps(dataset_df)
    /\ Len(dataset_df) = 3
    /\ dataset_df[1].user_id = dataset_df[2].user_id
    /\ dataset_df[1].timestamp > dataset_df[2].timestamp
    /\ \E n \in 1..Len(episodes_df) : episodes_df[n].episode_type = REGULAR

HasBothTimestamps(e) == NotNone(e.open_timestamp) /\ NotNone(e.close_timestamp)

\* C5: in the table read_and_reconstruct_episodes returns, duration_ms, duration_sec
\* and duration_log10_sec are non-null exactly when the episode has both an
\* open_timestamp and a close_timestamp; then duration_ms = close_timestamp -
\* open_timestamp >= 0, duration_sec = duration_ms / 1000 and duration_log10_sec =
\* log10(duration_sec + 1); orphan_open and orphan_close episodes have all three null.
C5_DurationFields ==
    pc = "returned" =>
        \A n \in 1..Len(episodes_df) :
            LET e == episodes_df[n]
            IN  /\ NotNone(e.duration_ms) <=> HasBothTimestamps(e)
                /\ NotNone(e.duration_sec) <=> HasBothTimestamps(e)
                /\ NotNone(e.duration_log10_sec) <=> HasBothTimestamps(e)
                /\ HasBothTimestamps(e) =>
                      LET ms  == Val(e.duration_ms)
                          sec == Val(e.duration_sec)
                          arg == Val(e.duration_log10_sec).log10_of
                      IN  /\ ms = Val(e.close_timestamp) - Val(e.open_timestamp)
                          /\ ms >= 0
                          /\ sec.den > 0
                          /\ sec.num * 1000 = ms * sec.den
                          /\ arg.den > 0
                          /\ arg.num * sec.den = (sec.num + sec.den) * arg.den
                /\ e.episode_type \in {ORPHAN_OPEN, ORPHAN_CLOSE} =>
                      /\ IsNone(e.duration_ms)
                      /\ IsNone(e.duration_sec)
                      /\ IsNone(e.duration_log10_sec)

\* A returned table with an episode of positive duration next to an orphan.
C5_Witness ==
    /\ pc = "returned"
    /\ \E n \in 1..Len(episodes_df) :
          /\ HasBothTimestamps(episodes_df[n])
          /\ Val(episodes_df[n].duration_ms) > 0
    /\ \E n \in 1..Len(episodes_df) :
          /\ episodes_df[n].episode_type \in {ORPHAN_OPEN, ORPHAN_CLOSE}
          /\ IsNone(episodes_df[n].duration_ms)

-----------------------------------------------------------------------------
(* Claims about select_mode and apply_trim, checked under Spec *)

\* The positions of df whose row satisfies keep, and the k-th of them.
PositionsWhere(df, keep(_)) == {n \in 1..Len(df) : keep(df[n])}
KthOf(P, k) == CHOOSE n \in P : Cardinality({m \in P : m <= n}) = k

\* out holds exactly the rows of df that satisfy keep, unchanged and in df's order.
IsSelection(out, df, keep(_)) ==
    LET P == PositionsWhere(df, keep)
    IN  /\ Len(out) = Cardinality(P)
        /\ \A k \in 1..Len(out) : out[k] = df[KthOf(P, k)]

\* select_mode has just returned selected_df for episodes_df and args.mode.
SelectReturned == pc = "apply_trim" /\ entry \in {"main", "select_mode"}

\* C6: select_mode with regular_only returns exactly the episodes classified
\* regular, with include_double_open exactly those classified regular or
\* double_open, unchanged and in their order; no orphan_open or orphan_close
\* episode is returned.
C6_SelectMode ==
    SelectReturned =>
        /\ args.mode = "regular_only" =>
              IsSelection(selected_df, episodes_df, LAMBDA e : e.episode_type = "regular")
        /\ args.mode = "include_double_open" =>
              IsSelection(selected_df, episodes_df,
                          LAMBDA e : e.episode_type \in {"regular", "double_open"})
        /\ \A k \in 1..Len(selected_df) :
              selected_df[k].episode_type \notin {"orphan_open", "orphan_close"}

\* include_double_open on a table with a double_open, a regular and an orphan
\* episode: two rows are kept, one is not.
C6_Witness ==
    /\ SelectReturned
    /\ args.mode = "include_double_open"
    /\ {DOUBLE_OPEN, REGULAR, ORPHAN_CLOSE}
          \subseteq {episodes_df[n].episode_type : n \in 1..Len(episodes_df)}
    /\ Len(selected_df) >= 2
    /\ Len(selected_df) < Len(episodes_df)

\* apply_trim has just returned selected_trimmed_df for selected_df and args.trim.
TrimReturned == pc \in {"create_out_dir", "returned"}

\* The 99th percentile by ranks: among the n values present, the value of rank r
\* (0-based) is the d with fewer than r+1 values below it and more than r values
\* not above it; the percentile lies at rank 99(n-1)/100, interpolated linearly
\* between the ranks around it. In units of 1/100 of the values' numerators.
WithDuration(df) == PositionsWhere(df, LAMBDA e : e.duration_sec # << >>)
NumAt(df, n) == df[n].duration_sec[1].num
RankValue(df, r) ==
    LET D == WithDuration(df)
        p == CHOOSE q \in D :
                /\ Cardinality({m \in D : NumAt(df, m) < NumAt(df, q)}) <= r
                /\ Cardinality({m \in D : NumAt(df, m) <= NumAt(df, q)}) > r
    IN  NumAt(df, p)
Percentile99Times100(df) ==
    LET n  == Cardinality(WithDuration(df))
        lo == CHOOSE k \in 0..(n - 1) : 100 * k <= 99 * (n - 1) /\ 99 * (n - 1) < 100 * (k + 1)
        up == IF lo = n - 1 THEN lo ELSE lo + 1
    IN  100 * RankValue(df, lo)
            + (99 * (n - 1) - 100 * lo) * (RankValue(df, up) - RankValue(df, lo))

BelowPercentile99(df, e) ==
    /\ e.duration_sec # << >>
    /\ e.duration_sec[1].den = 1000
    /\ 100 * e.duration_sec[1].num < Percentile99Times100(df)

\* C7: apply_trim with policy all returns its input unchanged; with exclude_top1 it
\* returns exactly the input episodes whose duration_sec is strictly below the 99th
\* percentile (linear interpolation) of the input's non-null duration_sec values,
\* unchanged and in order: a subset of the result of all, with no episode at or
\* above the threshold.
C7_ApplyTrim ==
    TrimReturned =>
        /\ args.trim = "all" => selected_trimmed_df = selected_df
        /\ (args.trim = "exclude_top1" /\ WithDuration(selected_df) # {}) =>
              /\ IsSelection(selected_trimmed_df, selected_df,
                             LAMBDA e : BelowPercentile99(selected_df, e))
              /\ \A k \in 1..Len(selected_trimmed_df) :
                    /\ \E n \in 1..Len(selected_df) : selected_df[n] = selected_trimmed_df[k]
                    /\ 100 * NumAt(selected_trimmed_df, k) < Percentile99Times100(selected_df)
              /\ Len(selected_trimmed_df) < Len(selected_df)
        /\ (args.trim = "exclude_top1" /\ WithDuration(selected_df) = {}) =>
              selected_trimmed_df = << >>

\* exclude_top1 on a table with two different durations and a repeated one: the
\* longest goes, the others stay.
C7_Witness ==
    /\ TrimReturned
    /\ args.trim = "exclude_top1"
    /\ Cardinality(WithDuration(selected_df)) >= 2
    /\ Len(selected_trimmed_df) >= 1
    /\ \E n \in WithDuration(selected_df) :
          100 * NumAt(selected_df, n) >= Percentile99Times100(selected_df)
    /\ \E n \in WithDuration(selected_df) :
          100 * NumAt(selected_df, n) < Percentile99Times100(selected_df)

UnsupportedConfiguration ==
    {[type |-> "SystemExit", at |-> "parse_cmd_args"],
     [type |-> "ValueError", at |-> "select_mode"],
     [type |-> "ValueError", at |-> "apply_trim"]}

\* C8: select_mode given an unknown mode, and apply_trim given an unknown trim,
\* raise instead of returning a table; in main an unknown mode or trim ends the run
\* with such an error, and whenever such an error ends a run no output directory
\* has been made, no file written and no result bundle produced.
C8_UnsupportedConfiguration ==
    /\ (entry = "select_mode" /\ args.mode \notin Modes /\ pc # "select_mode") =>
          /\ pc = "aborted"
          /\ error = Some([type |-> "ValueError", at |-> "select_mode"])
          /\ selected_df = << >> /\ selected_trimmed_df = << >>
    /\ (entry \in {"select_mode", "apply_trim"} /\ args.mode \in Modes
        /\ args.trim \notin Trims /\ pc \notin {"select_mode", "apply_trim"}) =>
          /\ pc = "aborted"
          /\ error = Some([type |-> "ValueError", at |-> "apply_trim"])
          /\ selected_trimmed_df = << >>
    /\ (entry = "main" /\ (args.mode \notin Modes \/ args.trim \notin Trims)
        /\ pc # "parse_args") =>
          /\ pc = "aborted"
          /\ NotNone(error) /\ Val(error) \in UnsupportedConfiguration
    /\ (NotNone(error) /\ Val(error) \in UnsupportedConfiguration) =>
          /\ pc = "aborted"
          /\ out_dir = FALSE
          /\ files = {}
          /\ results = None

\* select_mode was given a mode it does not know and raised.
C8_Witness ==
    /\ entry = "select_mode"
    /\ args.mode \notin Modes
    /\ pc = "aborted"
    /\ error = Some([type |-> "ValueError", at |-> "select_mode"])

-----------------------------------------------------------------------------
(* Claims about the result bundle and its reporting, checked under Spec *)

\* C9 as stated: when bootstrap_ci had an empty array the bundle records the marker
\* under "bootstrap" and the run goes on through pretty_print and save_json: it does
\* not abort.
C9_BootstrapUnavailableNotFatal ==
    (NotNone(results) /\ IsNone(Val(results).bootstrap)) => pc # "aborted"

StatFunctions == {"stat_summary", "inferential_tests", "tail_test", "wilcoxon_paired_test",
                  "bootstrap_ci"}

\* all_stat_analysis raised: one of its sub-analyses did.
StatAnalysisRaised == pc = "aborted" /\ NotNone(error) /\ Val(error).at \in StatFunctions

\* Some sub-analysis raises on the table all_stat_analysis is given.
SomeSubAnalysisRaises ==
    \/ NotNone(inferential_tests(selected_trimmed_df, lib.scipy).raised)
    \/ NotNone(tail_test(selected_trimmed_df, lib.numpy).raised)
    \/ NotNone(wilcoxon_paired_test(selected_trimmed_df, lib.scipy).raised)

AfterStatAnalysis == entry = "main" /\ (pc \in {"pretty_print", "save_json", "done"}
                                        \/ (pc = "aborted" /\ Val(error).at \in StatFunctions \cup {"pretty_print"}))

\* C10 as stated: when a sub-analysis raises, no bundle is returned and the run
\* aborts without having produced any results or output files.
C10_Original ==
    StatAnalysisRaised => (results = None /\ files = {})

\* C10 (amended): the bundle is all-or-nothing. When a sub-analysis of
\* all_stat_analysis raises, no bundle is returned, the run aborts there, and neither
\* results.txt nor analysis.json is written; the output directory has been created
\* by then and, with --plots, the four plot images have been written. A bundle that
\* is returned holds every section.
C10_AllOrNothing ==
    /\ (AfterStatAnalysis /\ SomeSubAnalysisRaises) => StatAnalysisRaised
    /\ StatAnalysisRaised =>
          /\ results = None
          /\ "results.txt" \notin files /\ "analysis.json" \notin files
          /\ out_dir = TRUE
          /\ files = (IF args.plots THEN PlotFiles ELSE {})
    /\ NotNone(results) =>
          /\ DOMAIN Val(results) = {"summary", "inf", "tail", "wilcoxon", "bootstrap"}
          /\ DOMAIN Val(results).inf = {"welch_t_test", "mann_whitney"}
          /\ DOMAIN Val(results).tail = {"threshold_sec", "tail_counts"}
          /\ DOMAIN Val(results).wilcoxon = {"wilcoxon_pair_test", "n_paired"}

\* The paired test raised after the plots had been written.
C10_Witness ==
    /\ StatAnalysisRaised
    /\ Val(error).at = "wilcoxon_paired_test"
    /\ args.plots
    /\ files = PlotFiles
    /\ results = None

-----------------------------------------------------------------------------
(* Further claims about reconstruction, checked under SpecRecon *)

DurationFields == {"duration_ms", "duration_sec", "duration_log10_sec"}

\* C11 as stated: on every table whose rows carry user_id, timestamp, event and
\* open_type (the empty table, a single event, only opened or only closed events
\* included) read_and_reconstruct_episodes returns, without raising, a table
\* of the reconstructed episodes that carries the duration fields.
C11_NeverFails ==
    ReconDone =>
        /\ pc = "returned"
        /\ IsNone(error)
        /\ Len(episodes_df) = Len(all_episodes)
        /\ \A n \in 1..Len(episodes_df) : DurationFields \subseteq DOMAIN episodes_df[n]

\* reconstruct_user_episodes is running, or has just returned, for user_id.
InUserCall == pc \in {"loop", "groupby"} /\ NotNone(user_id)

\* The position, among the user's events, of the row of index label idx.
PosOfIndex(idx) == CHOOSE k \in 1..Len(user_events) : user_events[k].index = idx

\* The n-th episode of the user takes its open fields from the earlier of two
\* consecutive opened events of the user, the one given as its open event.
OpensAtEarlierOpen(n) ==
    /\ NotNone(slots[n].open)
    /\ LET ka == PosOfIndex(Val(slots[n].open))
       IN  /\ ka < Len(user_events)
           /\ user_events[ka].event = "opened"
           /\ user_events[ka + 1].event = "opened"
           /\ episodes[n].user_id = Val(user_id)
           /\ episodes[n].open_timestamp = Some(user_events[ka].timestamp)
           /\ episodes[n].open_type = Some(user_events[ka].open_type)
           /\ user_events[ka].timestamp <= user_events[ka + 1].timestamp

\* C12 as stated: every double_open episode has the timestamp and the open_type
\* of the earlier open, and its close_timestamp is null.
C12_Original ==
    InUserCall =>
        \A n \in EpisodesOfType(DOUBLE_OPEN) :
            /\ OpensAtEarlierOpen(n)
            /\ IsNone(episodes[n].close_timestamp)

\* C12 (amended): every double_open episode has the timestamp and the open_type of
\* the earlier open, and its close_timestamp is the timestamp of the second open,
\* the user's next event, which is recorded as its close event; the second open
\* also becomes the pending open, so it is the open of the user's next episode.
C12_DoubleOpen ==
    InUserCall =>
        \A n \in EpisodesOfType(DOUBLE_OPEN) :
            /\ OpensAtEarlierOpen(n)
            /\ NotNone(slots[n].close)
            /\ PosOfIndex(Val(slots[n].close)) = PosOfIndex(Val(slots[n].open)) + 1
            /\ episodes[n].close_timestamp
                  = Some(user_events[PosOfIndex(Val(slots[n].close))].timestamp)
            /\ IF n < Len(episodes)
               THEN slots[n + 1].open = slots[n].close
               ELSE /\ pc = "loop"
                    /\ last_open_event = Some(user_events[PosOfIndex(Val(slots[n].close))])

\* In the loop, a double_open episode has just been emitted for an auto open at 0
\* followed by a manual open at 1, and the manual open is pending.
C12_Witness ==
    /\ pc = "loop"
    /\ i = 3
    /\ user_events[1].event = "opened" /\ user_events[1].open_type = "auto"
    /\ user_events[2].event = "opened" /\ user_events[2].open_type = "manual"
    /\ user_events[1].timestamp < user_events[2].timestamp
    /\ Len(episodes) = 1
    /\ episodes[1].episode_type = DOUBLE_OPEN
    /\ episodes[1].open_type = Some("auto")
    /\ episodes[1].close_timestamp = Some(user_events[2].timestamp)
    /\ last_open_event = Some(user_events[2])

-----------------------------------------------------------------------------
(* Claims about per-user independence, checked under SpecWorkers *)

\* The row of the sorted table that carries index label idx.
RowOfIndex(idx) == sorted_df[idx + 1]

\* The rows given to append_episode for the n-th episode of the running call are
\* rows of the call's own user, and so is the episode.
OwnEvents(n) ==
    /\ episodes[n].user_id = Val(user_id)
    /\ NotNone(slots[n].open) => RowOfIndex(Val(slots[n].open)).user_id = Val(user_id)
    /\ NotNone(slots[n].close) => RowOfIndex(Val(slots[n].close)).user_id = Val(user_id)

EpisodesOfUser(eps, u) == SelectSeq(eps, LAMBDA e : e.user_id = u)

\* C13: in the sequential run the loop of every user starts with no pending open
\* and no episode, whatever the previous user left; the open and close events of
\* every episode are events of the episode's own user; and the per-user calls run
\* on workers, interleaved in any way and merged in any order, give the episodes
\* of the sequential run: as many, and user by user the same sequence.
C13_NoCrossUserDependency ==
    /\ (pc = "loop" /\ i = 1) => (IsNone(last_open_event) /\ episodes = << >>)
    /\ InUserCall => \A n \in 1..Len(episodes) : OwnEvents(n)
    /\ pc = "merged" =>
          /\ Len(workers.merged) = Len(all_episodes)
          /\ \A u \in Users :
                EpisodesOfUser(workers.merged, u) = EpisodesOfUser(all_episodes, u)

\* Two users: the first ends on a pending open, the second starts with a close.
\* Their calls overlapped on the workers and were merged in the other order.
C13_Witness ==
    /\ pc = "merged"
    /\ workers.overlapped
    /\ workers.merged # all_episodes
    /\ \E n \in 1..(Len(all_episodes) - 1) :
          /\ all_episodes[n].user_id = 1
          /\ all_episodes[n].episode_type = ORPHAN_OPEN
          /\ all_episodes[n + 1].user_id = 2
          /\ all_episodes[n + 1].episode_type = ORPHAN_CLOSE

-----------------------------------------------------------------------------
(* Conservation of events, checked under SpecRecon *)

\* The number of the user's events of one kind.
EventsOfKind(kind) ==
    Cardinality({k \in 1..Len(user_events) : user_events[k].event = kind})

NumOfType(t) == Cardinality(EpisodesOfType(t))

\* C14: when reconstruct_user_episodes returns, the user's opened events are as
\* many as the double_open, regular and orphan_open episodes together, the closed
\* events as many as the regular and orphan_close episodes together, and the
\* episodes as many as the events less the regular episodes.
C14_Conservation ==
    UserReturned =>
        /\ EventsOfKind("opened")
              = NumOfType(DOUBLE_OPEN) + NumOfType(REGULAR) + NumOfType(ORPHAN_OPEN)
        /\ EventsOfKind("closed") = NumOfType(REGULAR) + NumOfType(ORPHAN_CLOSE)
        /\ Len(episodes) = Len(user_events) - NumOfType(REGULAR)

\* A user whose events close, open and close: an orphan_close and a regular
\* episode, two episodes from three events.
C14_Witness ==
    /\ UserReturned
    /\ Len(user_events) = 3
    /\ EventsOfKind("opened") = 1
    /\ EventsOfKind("closed") = 2
    /\ NumOfType(ORPHAN_CLOSE) = 1
    /\ NumOfType(REGULAR) = 1
    /\ Len(episodes) = 2

====
